---- MODULE Spec2Model ----
(***************************************************************************)
(* Model of tools/hermit_proxy/src/uhyve/uhyve.rs: the Uhyve connection to *)
(* /dev/kvm (new, version, create_vm and the implicit drop of its File),   *)
(* the kernel boundary it talks to (open, ioctl get_version, ioctl         *)
(* create_vm, close) and the VirtualMachine collaborator that receives the *)
(* raw handles.  Callers are threads; a call is split where another thread *)
(* can run between its accesses to what is shared (request, constructor).  *)
(***************************************************************************)
EXTENDS Integers, Sequences, FiniteSets, TLC

\* ------------------------------------------------------------------ bounds
NumUhyves == 2
MaxFd == 3
MaxCalls == 2

\* Two callers: every property here is about one call or about a pair of
\* calls that overlap.
Threads == {1, 2}
Uhyves == 1..NumUhyves
Fds == 1..MaxFd
\* No File: before new() and after the drop.
NoFd == -1

\* Guest memory sizes handed to create_vm: zero and one page.
Sizes == {0, 4096}

\* Values a successful get_version request may deliver.
VersionValues == {-2, 0, 12, 13}

\* ptr::null_mut(), the parameter of both requests.
NULL == 0

VARIABLES
    fds,       \* kernel fd table of the process: fd -> "free" | "kvm" | "vm"
    state,     \* per Uhyve: "Unopened" | "Opened" | "Closed"
    file,      \* per Uhyve: the fd of its File, NoFd when it has none
    closes,    \* per Uhyve: how many times its File was closed
    panicked,  \* the unwrap() in new() panicked
    pc,        \* per thread: position inside the call it runs
    call,      \* per thread: the call it runs, [op, u, size]
    reqs,      \* per thread: control requests issued by the running call
    ioRes,     \* per thread: what the request of the running call returned
    ctor,      \* per thread: VirtualMachine::new invocations of the running call
    ctorRes,   \* per thread: what VirtualMachine::new returned
    ret,       \* per thread: the value the call returned
    vms,       \* the handles of the VirtualMachines that were built
    stale,     \* those of them whose device fd has been closed since
    ncalls,    \* calls started so far
    vmUse      \* "released" once a VirtualMachine issued a control request on
               \* a device fd that had been closed, "none" before

vars == <<fds, state, file, closes, panicked, pc, call, reqs, ioRes, ctor,
          ctorRes, ret, vms, stale, vmUse, ncalls>>

uhyveVars == <<state, file, closes, panicked, ncalls>>
callVars == <<pc, call, reqs, ioRes, ctor, ctorRes, ret>>
vmVars == <<vms, stale, vmUse>>

\* --------------------------------------------------------------- values
NoVM == [kvm_fd |-> NoFd, vm_fd |-> NoFd, size |-> 0]
VM(kvm_fd, vm_fd, size) == [kvm_fd |-> kvm_fd, vm_fd |-> vm_fd, size |-> size]
\* The two raw fds a VirtualMachine keeps.
Handles(vm) == [kvm_fd |-> vm.kvm_fd, vm_fd |-> vm.vm_fd]

\* Result<T> of uhyve: Ok(Version), Ok(VirtualMachine) or Err(Error).
NoResult == [tag |-> "None", ver |-> "-", err |-> "-", vm |-> NoVM]
OkVersion(v) == [tag |-> "Ok", ver |-> v, err |-> "-", vm |-> NoVM]
OkVM(vm) == [tag |-> "Ok", ver |-> "-", err |-> "-", vm |-> vm]
Err(e) == [tag |-> "Err", ver |-> "-", err |-> e, vm |-> NoVM]

\* Result<c_int> of a generated ioctl function.
IoNone == [tag |-> "None", val |-> 0]
IoOk(v) == [tag |-> "Ok", val |-> v]
IoErr == [tag |-> "Err", val |-> 0]

NoCall == [op |-> "none", u |-> 0, size |-> 0]
Request(name, fd, arg) == [name |-> name, fd |-> fd, arg |-> arg]
NoUse == "none"

\* ------------------------------------------------------- kernel boundary
FreeFds == {f \in Fds : fds[f] = "free"}
\* POSIX: a new descriptor is the lowest-numbered one not open in the process.
LowestFree == CHOOSE f \in FreeFds : \A g \in FreeFds : f <= g

\* Idle threads are interchangeable and so are Uhyves not yet constructed: the
\* next call runs on the lowest idle thread, the next new() builds the lowest
\* unopened Uhyve.
NextThread(t) == pc[t] = "idle" /\ \A s \in Threads : s < t => pc[s] # "idle"
NextUhyve(u) == state[u] = "Unopened" /\ \A w \in Uhyves : w < u => state[w] # "Unopened"

InCall(t) == pc[t] \notin {"idle", "done"}
Borrowed(u) == \E t \in Threads : InCall(t) /\ call[t].u = u

Init ==
    /\ fds = [f \in Fds |-> "free"]
    /\ state = [u \in Uhyves |-> "Unopened"]
    /\ file = [u \in Uhyves |-> NoFd]
    /\ closes = [u \in Uhyves |-> 0]
    /\ panicked = FALSE
    /\ pc = [t \in Threads |-> "idle"]
    /\ call = [t \in Threads |-> NoCall]
    /\ reqs = [t \in Threads |-> <<>>]
    /\ ioRes = [t \in Threads |-> IoNone]
    /\ ctor = [t \in Threads |-> <<>>]
    /\ ctorRes = [t \in Threads |-> NoResult]
    /\ ret = [t \in Threads |-> NoResult]
    /\ vms = {}
    /\ stale = {}
    /\ vmUse = NoUse
    /\ ncalls = 0

\* ------------------------------------------------------------ Uhyve::new
\* OpenOptions...open("/dev/kvm").unwrap(): the open succeeds with a new fd,
\* or fails and unwrap() panics.
new(u) ==
    /\ ~panicked
    /\ NextUhyve(u)
    /\ \/ /\ FreeFds # {}
          /\ fds' = [fds EXCEPT ![LowestFree] = "kvm"]
          /\ file' = [file EXCEPT ![u] = LowestFree]
          /\ state' = [state EXCEPT ![u] = "Opened"]
          /\ UNCHANGED panicked
       \/ /\ panicked' = TRUE
          /\ UNCHANGED <<fds, file, state>>
    /\ UNCHANGED <<closes, ncalls, callVars, vmVars>>

\* The Uhyve goes out of scope: its File closes the fd.  Not possible while a
\* call borrows &self.
drop(u) ==
    /\ ~panicked
    /\ state[u] = "Opened"
    /\ ~Borrowed(u)
    /\ fds' = [fds EXCEPT ![file[u]] = "free"]
    /\ state' = [state EXCEPT ![u] = "Closed"]
    /\ closes' = [closes EXCEPT ![u] = @ + 1]
    /\ file' = [file EXCEPT ![u] = NoFd]
    /\ stale' = stale \cup {h \in vms : h.kvm_fd = file[u]}
    /\ UNCHANGED <<panicked, ncalls, callVars, vms, vmUse>>

\* A control request leaves this layer: the generated ioctl function is called
\* once with the raw fd of self.file and ptr::null_mut().
IssueRequest_twice(t, name, fd) ==
    reqs' = [reqs EXCEPT ![t] =
               Append(Append(@, Request(name, fd, NULL)), Request(name, fd, NULL))]

IssueRequest(t, name, fd) ==
    reqs' = [reqs EXCEPT ![t] = Append(@, Request(name, fd, NULL))]

\* -------------------------------------------------------- Uhyve::version
\* The match of version(): Ok(12), Ok(_), Err(_).
VersionMatch_atleast(r) ==
    IF r.tag = "Ok"
    THEN IF r.val >= 12 THEN OkVersion("Version12") ELSE OkVersion("Unsupported")
    ELSE Err("IOCTL_GetVersion")

VersionMatch_internal(r) ==
    IF r.tag = "Ok"
    THEN IF r.val = 12 THEN OkVersion("Version12") ELSE OkVersion("Unsupported")
    ELSE Err("InternalError")

VersionMatch(r) ==
    IF r.tag = "Ok"
    THEN IF r.val = 12 THEN OkVersion("Version12") ELSE OkVersion("Unsupported")
    ELSE Err("IOCTL_GetVersion")

\* version(&self): ioctl::get_version(self.file.as_raw_fd(), ptr::null_mut())
\* and the match on what it returned.  The request is the only access to
\* anything shared, so the call is one step.
version(t, u) ==
    /\ ~panicked
    /\ NextThread(t)
    /\ state[u] = "Opened"
    /\ ncalls < MaxCalls
    /\ ncalls' = ncalls + 1
    /\ call' = [call EXCEPT ![t] = [op |-> "version", u |-> u, size |-> 0]]
    /\ IssueRequest(t, "get_version", file[u])
    /\ \E r \in {IoOk(v) : v \in VersionValues} \cup {IoErr} :
          /\ ioRes' = [ioRes EXCEPT ![t] = r]
          /\ ret' = [ret EXCEPT ![t] = VersionMatch(r)]
    /\ pc' = [pc EXCEPT ![t] = "done"]
    /\ UNCHANGED <<fds, state, file, closes, panicked, ctor, ctorRes, vmVars>>

\* ------------------------------------------------------ Uhyve::create_vm
\* create_vm(&self, size) up to its request:
\* ioctl::create_vm(self.file.as_raw_fd(), ptr::null_mut()).  The kernel hands
\* out a new fd for the VM, or the request fails.
create_vm(t, u, size) ==
    /\ ~panicked
    /\ NextThread(t)
    /\ state[u] = "Opened"
    /\ ncalls < MaxCalls
    /\ ncalls' = ncalls + 1
    /\ call' = [call EXCEPT ![t] = [op |-> "create_vm", u |-> u, size |-> size]]
    /\ IssueRequest(t, "create_vm", file[u])
    /\ \/ /\ FreeFds # {}
          /\ fds' = [fds EXCEPT ![LowestFree] = "vm"]
          /\ ioRes' = [ioRes EXCEPT ![t] = IoOk(LowestFree)]
       \/ /\ ioRes' = [ioRes EXCEPT ![t] = IoErr]
          /\ UNCHANGED fds
    /\ pc' = [pc EXCEPT ![t] = "create_vm_match"]
    /\ UNCHANGED <<state, file, closes, panicked, ctor, ctorRes, ret, vmVars>>

\* The arguments of VirtualMachine::new in the Ok(vm_fd) arm.
NewArgs_pages(t) == VM(file[call[t].u], ioRes[t].val, call[t].size \div 4096)

NewArgs_swapped(t) == VM(ioRes[t].val, file[call[t].u], call[t].size)

NewArgs(t) == VM(file[call[t].u], ioRes[t].val, call[t].size)

\* VirtualMachine::new(kvm_fd, vm_fd, size): builds the machine, or fails; on
\* failure the VM fd is either closed or left open.
VirtualMachine_new(t, args) ==
    /\ ctor' = [ctor EXCEPT ![t] = Append(@, args)]
    /\ \/ /\ ctorRes' = [ctorRes EXCEPT ![t] = OkVM(args)]
          /\ vms' = vms \cup {Handles(args)}
          /\ UNCHANGED fds
       \/ /\ ctorRes' = [ctorRes EXCEPT ![t] = Err("VmError")]
          /\ \/ fds' = [fds EXCEPT ![args.vm_fd] = "free"]
             \/ UNCHANGED fds
          /\ UNCHANGED vms

\* The Err(_) arm of create_vm().
CreateVmError_ioctl == Err("IOCTL_CreateVM")

CreateVmError == Err("InternalError")

\* The match of create_vm(): Ok(vm_fd) calls the constructor, Err(_) returns
\* Error::InternalError.
create_vm_match(t) ==
    /\ ~panicked
    /\ pc[t] = "create_vm_match"
    /\ \/ /\ ioRes[t].tag = "Ok"
          /\ VirtualMachine_new(t, NewArgs(t))
          /\ pc' = [pc EXCEPT ![t] = "create_vm_ret"]
          /\ UNCHANGED ret
       \/ /\ ioRes[t].tag = "Err"
          /\ ret' = [ret EXCEPT ![t] = CreateVmError]
          /\ pc' = [pc EXCEPT ![t] = "done"]
          /\ UNCHANGED <<fds, ctor, ctorRes, vms>>
    /\ UNCHANGED <<uhyveVars, call, reqs, ioRes, stale, vmUse>>

\* create_vm returns the constructor's result; the Uhyve keeps its File.
create_vm_ret_moves(t) ==
    /\ ~panicked
    /\ pc[t] = "create_vm_ret"
    /\ ret' = [ret EXCEPT ![t] = ctorRes[t]]
    /\ pc' = [pc EXCEPT ![t] = "done"]
    /\ IF ctorRes[t].tag = "Ok"
       THEN /\ state' = [state EXCEPT ![call[t].u] = "Closed"]
            /\ file' = [file EXCEPT ![call[t].u] = NoFd]
       ELSE UNCHANGED <<state, file>>
    /\ UNCHANGED <<fds, closes, panicked, ncalls, call, reqs, ioRes, ctor, ctorRes, vmVars>>

create_vm_ret(t) ==
    /\ ~panicked
    /\ pc[t] = "create_vm_ret"
    /\ ret' = [ret EXCEPT ![t] = ctorRes[t]]
    /\ pc' = [pc EXCEPT ![t] = "done"]
    /\ UNCHANGED <<fds, uhyveVars, call, reqs, ioRes, ctor, ctorRes, vmVars>>

\* The caller takes the returned value; the thread is free for the next call.
consume(t) ==
    /\ ~panicked
    /\ pc[t] = "done"
    /\ pc' = [pc EXCEPT ![t] = "idle"]
    /\ call' = [call EXCEPT ![t] = NoCall]
    /\ reqs' = [reqs EXCEPT ![t] = <<>>]
    /\ ioRes' = [ioRes EXCEPT ![t] = IoNone]
    /\ ctor' = [ctor EXCEPT ![t] = <<>>]
    /\ ctorRes' = [ctorRes EXCEPT ![t] = NoResult]
    /\ ret' = [ret EXCEPT ![t] = NoResult]
    /\ UNCHANGED <<fds, uhyveVars, vmVars>>

\* ------------------------------------------------- VirtualMachine, later
\* A built VirtualMachine issues a control request on the device fd it was
\* given (vCPU and memory set-up go through it).  A request on an fd that is
\* still open leaves no trace here.
vm_request(vm) ==
    /\ ~panicked
    /\ Handles(vm) \in vms
    /\ vmUse' = IF Handles(vm) \in stale THEN "released" ELSE vmUse
    /\ UNCHANGED <<fds, uhyveVars, callVars, vms, stale>>

\* ------------------------------------------------------------ properties
Returned(t, op) == pc[t] = "done" /\ call[t].op = op

\* C1: whenever the get_version request succeeds with a value v, whatever v is
\* (zero and negative values too), version() returns Ok: Ok(Version12) exactly
\* when v = 12 and Ok(Unsupported) for every other v.
C1_VersionClassifies ==
    \A t \in Threads :
        Returned(t, "version") /\ ioRes[t].tag = "Ok" =>
            /\ ret[t].tag = "Ok"
            /\ ret[t].ver = (IF ioRes[t].val = 12 THEN "Version12" ELSE "Unsupported")

\* One call read 12 and returned Version12, another read a negative value and
\* returned Unsupported.
C1_Witness ==
    \E t, s \in Threads :
        /\ Returned(t, "version") /\ ioRes[t] = IoOk(12) /\ ret[t].ver = "Version12"
        /\ Returned(s, "version") /\ ioRes[s].tag = "Ok" /\ ioRes[s].val < 0
        /\ ret[s].ver = "Unsupported"

\* C2: whenever the get_version request fails, version() returns
\* Err(IOCTL(GetVersion)), whatever calls came before and however they ended.
C2_VersionFailure ==
    \A t \in Threads :
        Returned(t, "version") /\ ioRes[t].tag = "Err" =>
            ret[t] = Err("IOCTL_GetVersion")

\* A version() whose request failed, on a Uhyve on which an earlier create_vm
\* built a VirtualMachine.
C2_Witness ==
    \E t, s \in Threads :
        /\ Returned(t, "version") /\ ioRes[t].tag = "Err"
        /\ ret[t] = Err("IOCTL_GetVersion")
        /\ Returned(s, "create_vm") /\ ret[s].tag = "Ok" /\ call[s].u = call[t].u

\* C3: when the create_vm request succeeds with handle h, create_vm(size) has
\* called VirtualMachine::new exactly once, with the device fd the request went
\* to, h and the size it was given, and returns what the constructor returned.
C3_Handoff ==
    \A t \in Threads :
        Returned(t, "create_vm") /\ ioRes[t].tag = "Ok" =>
            /\ ctor[t] = <<VM(reqs[t][1].fd, ioRes[t].val, call[t].size)>>
            /\ ret[t] = ctorRes[t]
            /\ ret[t].tag \in {"Ok", "Err"}

\* A create_vm(0) that returned the machine the constructor built and a
\* create_vm(4096) that returned the constructor's error.
C3_Witness ==
    \E t, s \in Threads :
        /\ Returned(t, "create_vm") /\ call[t].size = 0 /\ ret[t].tag = "Ok"
        /\ ret[t].vm.size = 0 /\ Len(ctor[t]) = 1
        /\ Returned(s, "create_vm") /\ call[s].size = 4096 /\ ioRes[s].tag = "Ok"
        /\ ret[s] = Err("VmError") /\ Len(ctor[s]) = 1

\* C4: when the create_vm request fails, create_vm(size) returns
\* Err(InternalError) and has not called VirtualMachine::new.
C4_CreateFailure ==
    \A t \in Threads :
        Returned(t, "create_vm") /\ ioRes[t].tag = "Err" =>
            ret[t] = Err("InternalError") /\ ctor[t] = <<>>

\* Two failed create_vm calls, one for each size.
C4_Witness ==
    \E t, s \in Threads :
        /\ Returned(t, "create_vm") /\ ioRes[t].tag = "Err" /\ call[t].size = 0
        /\ Returned(s, "create_vm") /\ ioRes[s].tag = "Err" /\ call[s].size = 4096
        /\ ret[t] = Err("InternalError") /\ ret[s] = Err("InternalError")

\* The Uhyve issues a control request on fd h in this step.
UhyveUses(h) ==
    \E t \in Threads :
        /\ Len(reqs'[t]) > Len(reqs[t])
        /\ reqs'[t][Len(reqs'[t])].fd = h
\* The Uhyve closes fd h in this step.
UhyveCloses(h) ==
    \E u \in Uhyves : state[u] = "Opened" /\ state'[u] = "Closed" /\ file[u] = h
HeldByVM(h) == \E vm \in vms : h \in {vm.kvm_fd, vm.vm_fd}

\* C5: once a VirtualMachine has been built from a device fd and a VM fd, no
\* later step of the Uhyve (a request of version() or create_vm(), or its
\* drop) uses or closes an fd that a VirtualMachine holds.
C5_NoUseAfterHandoff ==
    [][\A h \in Fds : UhyveUses(h) \/ UhyveCloses(h) => ~HeldByVM(h)]_vars

\* C6: the File of every Uhyve is closed at most once, exactly once when the
\* Uhyve is gone, and no control request is ever issued on a device fd after it
\* was closed, by the Uhyve or by a VirtualMachine that was given the fd.
C6_ReleasedOnceNeverUsedAfter ==
    /\ \A u \in Uhyves : closes[u] = (IF state[u] = "Closed" THEN 1 ELSE 0)
    /\ \A t \in Threads : InCall(t) => fds[reqs[t][1].fd] = "kvm"
    /\ vmUse # "released"

HoldsVmFd(t) ==
    \/ pc[t] = "create_vm_match" /\ ioRes[t].tag = "Ok"
    \/ pc[t] = "create_vm_ret" /\ ctorRes[t].tag = "Ok"
VmFdOf(t) == IF pc[t] = "create_vm_ret" THEN ctor[t][1].vm_fd ELSE ioRes[t].val

C8_OpenFailureReported == ~panicked

\* C9: a Uhyve goes Unopened -> Opened -> Closed and never back; every step of
\* version() and create_vm() finds its Uhyve Opened and leaves it Opened with
\* the same File, whatever the call returns.
C9_Lifecycle ==
    [][\A u \in Uhyves :
          /\ <<state[u], state'[u]>> \in
                {<<"Unopened", "Unopened">>, <<"Unopened", "Opened">>,
                 <<"Opened", "Opened">>, <<"Opened", "Closed">>,
                 <<"Closed", "Closed">>}
          /\ state[u] = "Opened" /\ state'[u] = "Opened" => file'[u] = file[u]
          /\ \A t \in Threads :
                pc'[t] # pc[t] /\ pc'[t] # "idle" /\ call'[t].u = u =>
                    /\ state[u] = "Opened" /\ state'[u] = "Opened"
                    /\ file'[u] = file[u] /\ file[u] \in Fds
      ]_vars

\* One Uhyve is Closed; on another, a version() and a create_vm() returned, one
\* with an error and one with a value, and it is still Opened.
C9_Witness ==
    \E u, w \in Uhyves, t, s \in Threads :
        /\ state[u] = "Closed" /\ state[w] = "Opened" /\ file[w] \in Fds
        /\ Returned(t, "version") /\ call[t].u = w /\ ret[t].tag = "Err"
        /\ Returned(s, "create_vm") /\ call[s].u = w /\ ret[s].tag = "Ok"

\* C10: a call that returns has issued exactly one request, the one of its
\* operation, with a null parameter; when that request failed the call returns
\* an error value and the process goes on.
C10_OneShot ==
    [][\A t \in Threads :
          pc[t] # "done" /\ pc'[t] = "done" =>
              /\ reqs'[t] =
                   <<Request(IF call'[t].op = "version" THEN "get_version"
                             ELSE "create_vm", reqs'[t][1].fd, NULL)>>
              /\ ioRes'[t].tag = "Err" => ret'[t].tag = "Err" /\ ~panicked'
      ]_vars

\* A version() and a create_vm() whose requests failed have both returned an
\* error, each after one request.
C10_Witness ==
    \E t, s \in Threads :
        /\ Returned(t, "version") /\ ioRes[t].tag = "Err" /\ ret[t].tag = "Err"
        /\ Returned(s, "create_vm") /\ ioRes[s].tag = "Err" /\ ret[s].tag = "Err"
        /\ Len(reqs[t]) = 1 /\ Len(reqs[s]) = 1 /\ ~panicked

Next ==
    \/ \E u \in Uhyves : new(u)
    \/ \E u \in Uhyves : drop(u)
    \/ \E t \in Threads, u \in Uhyves : version(t, u)
    \/ \E t \in Threads, u \in Uhyves, size \in Sizes : create_vm(t, u, size)
    \/ \E t \in Threads : create_vm_match(t)
    \/ \E t \in Threads : create_vm_ret(t)
    \/ \E t \in Threads : consume(t)
    \/ \E h \in vms : vm_request(h)

Spec == Init /\ [][Next]_vars

====
